---- MODULE Spec2Model ----
(***************************************************************************)
(* Model of the market regime indicator of app.py: the moving averages,    *)
(* the trend detector, the VIX classifier, the regime combinator and the   *)
(* Analyze handler of the Streamlit page.                                  *)
(*                                                                         *)
(* Representation.  A DataFrame is a record [none, Close, dtype]: none is  *)
(* TRUE for Python's None, Close is the column of closes in date order     *)
(* and dtype says whether the column holds numbers ("float64") or the text *)
(* of numbers ("object", what a JSON string field becomes since the fetch  *)
(* never converts it).  A moving-average Series is [none, vals]; a value   *)
(* of vals is NaN or Scale times the mean, so that every mean of at most   *)
(* MaxWindow integers is an integer.  Floating-point rounding of the means *)
(* is not modelled.  Labels are sequences of characters, because the       *)
(* combinator decides by substring search.                                 *)
(***************************************************************************)
EXTENDS Integers, Sequences, FiniteSets, TLC

\* ---- bounds of the model ----
MaxLen == 3
MaxWindow == 3
MaxPrice == 3
MaxVixLen == 2
MaxMaLen == 2

\* ---- configuration (app.py:12-13) ----
VIX_THRESHOLD_HIGH == 25
VIX_THRESHOLD_LOW == 20

\* ---- labels, as the character sequences the code returns ----
\* "Neutral (Data Missing)"  (app.py:78)
NeutralDataMissing ==
    <<"N","e","u","t","r","a","l"," ","(","D","a","t","a"," ","M","i","s","s","i","n","g",")">>

\* "Potential Uptrend (Golden Cross)"  (app.py:88)
GoldenCross ==
    <<"P","o","t","e","n","t","i","a","l"," ","U","p","t","r","e","n","d"," ","(","G","o","l","d","e","n"," ","C","r","o","s","s",")">>

\* "Potential Downtrend (Death Cross)"  (app.py:90)
DeathCross ==
    <<"P","o","t","e","n","t","i","a","l"," ","D","o","w","n","t","r","e","n","d"," ","(","D","e","a","t","h"," ","C","r","o","s","s",")">>

\* "Uptrend (Above MAs)"  (app.py:92)
UptrendAboveMAs ==
    <<"U","p","t","r","e","n","d"," ","(","A","b","o","v","e"," ","M","A","s",")">>

\* "Downtrend (Below MAs)"  (app.py:94)
DowntrendBelowMAs ==
    <<"D","o","w","n","t","r","e","n","d"," ","(","B","e","l","o","w"," ","M","A","s",")">>

\* "Neutral (Between MAs or Mixed)"  (app.py:96)
NeutralMixed ==
    <<"N","e","u","t","r","a","l"," ","(","B","e","t","w","e","e","n"," ","M","A","s"," ","o","r"," ","M","i","x","e","d",")">>

\* "Neutral (Stock Data Error)"  (app.py:162)
StockDataError ==
    <<"N","e","u","t","r","a","l"," ","(","S","t","o","c","k"," ","D","a","t","a"," ","E","r","r","o","r",")">>

\* "Neutral (VIX Data Missing)"  (app.py:101)
DataMissing ==
    <<"N","e","u","t","r","a","l"," ","(","V","I","X"," ","D","a","t","a"," ","M","i","s","s","i","n","g",")">>

\* "Bearish (High Volatility)"  (app.py:106)
Bearish ==
    <<"B","e","a","r","i","s","h"," ","(","H","i","g","h"," ","V","o","l","a","t","i","l","i","t","y",")">>

\* "Bullish (Low Volatility)"  (app.py:108)
Bullish ==
    <<"B","u","l","l","i","s","h"," ","(","L","o","w"," ","V","o","l","a","t","i","l","i","t","y",")">>

\* "Neutral (Moderate Volatility)"  (app.py:110)
Neutral ==
    <<"N","e","u","t","r","a","l"," ","(","M","o","d","e","r","a","t","e"," ","V","o","l","a","t","i","l","i","t","y",")">>

\* "Downtrend"  (app.py:117)
DowntrendWord ==
    <<"D","o","w","n","t","r","e","n","d">>

\* "Bearish"  (app.py:117)
BearishWord ==
    <<"B","e","a","r","i","s","h">>

\* "Uptrend"  (app.py:118)
UptrendWord ==
    <<"U","p","t","r","e","n","d">>

\* "Bullish"  (app.py:118)
BullishWord ==
    <<"B","u","l","l","i","s","h">>

\* ---- results of determine_overall_regime (app.py:119-125) ----
UncertainMixed == "Uncertain/Mixed"
DowntrendRegime == "Downtrend Regime"
UptrendRegime == "Uptrend Regime"
NeutralRegime == "Neutral Regime"

\* ---- exceptions, as values a call can yield instead of a label ----
TypeError == <<"TypeError">>
IndexError == <<"IndexError">>
DataError == <<"DataError">>
Unset == <<>>

TrendLabels ==
    {GoldenCross, DeathCross, UptrendAboveMAs, DowntrendBelowMAs,
     NeutralMixed, NeutralDataMissing}
VixLabels == {Bullish, Bearish, Neutral, DataMissing}
OverallLabels == {UptrendRegime, DowntrendRegime, NeutralRegime, UncertainMixed}

\* ---- values ----
NaN == -1

RECURSIVE Factorial(_)
Factorial(n) == IF n <= 1 THEN 1 ELSE n * Factorial(n - 1)

\* fixed-point unit of the moving averages: every w in 1..MaxWindow divides it
Scale == Factorial(MaxWindow)

\* Python comparisons of floats: any comparison with NaN is False
GT(a, b) == a # NaN /\ b # NaN /\ a > b
LT(a, b) == a # NaN /\ b # NaN /\ a < b
GE(a, b) == a # NaN /\ b # NaN /\ a >= b
LE(a, b) == a # NaN /\ b # NaN /\ a <= b

\* Python's  sub in s  on strings
Contains(sub, s) ==
    \E i \in 1..(Len(s) - Len(sub) + 1) : SubSeq(s, i, i + Len(sub) - 1) = sub

\* ---- frames and series ----
NoneFrame == [none |-> TRUE, Close |-> <<>>, dtype |-> "float64"]
NoneSeries == [none |-> TRUE, vals |-> <<>>]
Frame(c, t) == [none |-> FALSE, Close |-> c, dtype |-> t]
Series(v) == [none |-> FALSE, vals |-> v]
Empty(df) == Len(df.Close) = 0

RECURSIVE SumRange(_, _, _)
SumRange(c, lo, hi) == IF lo > hi THEN 0 ELSE c[hi] + SumRange(c, lo, hi - 1)

\* the rolling mean with min_periods=1: a mean of the closes so far
RollingMean_MinPeriodsOne(c, w) ==
    [i \in 1..Len(c) |->
        IF i < w THEN (Scale \div i) * SumRange(c, 1, i)
        ELSE (Scale \div w) * SumRange(c, i - w + 1, i)]

\* data['Close'].rolling(window=w).mean(): NaN until w closes are available
RollingMean(c, w) ==
    [i \in 1..Len(c) |->
        IF i < w THEN NaN ELSE (Scale \div w) * SumRange(c, i - w + 1, i)]

calculate_moving_averages(data, short_period, long_period) ==
    IF data.none \/ Empty(data)
    THEN <<NoneSeries, NoneSeries>>
    ELSE <<Series(RollingMean(data.Close, short_period)),
           Series(RollingMean(data.Close, long_period))>>

IlocLast(s) == s[Len(s)]
IlocPrev(s) == s[Len(s) - 1]

\* the golden cross with a strict comparison of the previous values
GoldenCrossCond_Strict(sc, lc, sp, lp) == GT(sc, lc) /\ LT(sp, lp)
GoldenCrossCond(sc, lc, sp, lp) == GT(sc, lc) /\ LE(sp, lp)
\* the death cross with a strict comparison of the previous values
DeathCrossCond_Strict(sc, lc, sp, lp) == LT(sc, lc) /\ GT(sp, lp)
DeathCrossCond(sc, lc, sp, lp) == LT(sc, lc) /\ GE(sp, lp)
\* the previous value of a one-point series taken as 0
PrevOrCurrent_Zero(s) == IF Len(s) > 1 THEN IlocPrev(s) ELSE 0
PrevOrCurrent(s) == IF Len(s) > 1 THEN IlocPrev(s) ELSE IlocLast(s)

get_trend_direction_ma(data, ma_short, ma_long) ==
    IF data.none \/ ma_short.none \/ ma_long.none
    THEN NeutralDataMissing
    ELSE IF Empty(data) \/ Len(ma_short.vals) = 0 \/ Len(ma_long.vals) = 0
    THEN IndexError
    ELSE LET last_close == Scale * IlocLast(data.Close)
             ma_short_current == IlocLast(ma_short.vals)
             ma_long_current == IlocLast(ma_long.vals)
             ma_short_prev == PrevOrCurrent(ma_short.vals)
             ma_long_prev == PrevOrCurrent(ma_long.vals)
         IN  IF GoldenCrossCond(ma_short_current, ma_long_current,
                                ma_short_prev, ma_long_prev)
             THEN GoldenCross
             ELSE IF DeathCrossCond(ma_short_current, ma_long_current,
                                    ma_short_prev, ma_long_prev)
             THEN DeathCross
             ELSE IF data.dtype = "object"
             THEN TypeError
             ELSE IF /\ GT(last_close, ma_short_current)
                     /\ GT(last_close, ma_long_current)
                     /\ GT(ma_short_current, ma_long_current)
             THEN UptrendAboveMAs
             ELSE IF /\ LT(last_close, ma_short_current)
                     /\ LT(last_close, ma_long_current)
                     /\ LT(ma_short_current, ma_long_current)
             THEN DowntrendBelowMAs
             ELSE NeutralMixed

\* the classifier reading the oldest value, iloc[0]
get_vix_regime_FirstValue(vix, high, low) ==
    IF vix.none \/ Empty(vix)
    THEN DataMissing
    ELSE LET current_vix == vix.Close[1]
         IN  IF vix.dtype = "object"
             THEN TypeError
             ELSE IF current_vix > high
             THEN Bearish
             ELSE IF current_vix < low
             THEN Bullish
             ELSE Neutral

get_vix_regime(vix, high, low) ==
    IF vix.none \/ Empty(vix)
    THEN DataMissing
    ELSE LET current_vix == IlocLast(vix.Close)
         IN  IF vix.dtype = "object"
             THEN TypeError
             ELSE IF current_vix > high
             THEN Bearish
             ELSE IF current_vix < low
             THEN Bullish
             ELSE Neutral

\* the combinator whose mixed-signal test forgets the VIX regime
determine_overall_regime_TrendOnlyMixed(trend, vix) ==
    IF Contains(DowntrendWord, trend) \/ Contains(BearishWord, vix)
    THEN IF Contains(UptrendWord, trend)
         THEN UncertainMixed
         ELSE DowntrendRegime
    ELSE IF Contains(UptrendWord, trend) \/ Contains(BullishWord, vix)
    THEN UptrendRegime
    ELSE NeutralRegime

\* the combinator without the mixed-signal test: a bearish signal wins
determine_overall_regime_BearishWins(trend, vix) ==
    IF Contains(DowntrendWord, trend) \/ Contains(BearishWord, vix)
    THEN DowntrendRegime
    ELSE IF Contains(UptrendWord, trend) \/ Contains(BullishWord, vix)
    THEN UptrendRegime
    ELSE NeutralRegime

determine_overall_regime(trend, vix) ==
    IF Contains(DowntrendWord, trend) \/ Contains(BearishWord, vix)
    THEN IF Contains(UptrendWord, trend) \/ Contains(BullishWord, vix)
         THEN UncertainMixed
         ELSE DowntrendRegime
    ELSE IF Contains(UptrendWord, trend) \/ Contains(BullishWord, vix)
    THEN UptrendRegime
    ELSE NeutralRegime

\* ---- inputs ----
Prices == 1..MaxPrice
Windows == 1..MaxWindow
VixLevels == {15, 20, 22, 25, 30}
Thresholds == {VIX_THRESHOLD_LOW, VIX_THRESHOLD_HIGH}
SeqsUpTo(S, n) == UNION {[1..k -> S] : k \in 1..n}

\* what one fetch can return: None, a frame without rows, or a frame whose
\* closes are JSON numbers ("float64") or JSON strings ("object")
Dtypes == {"float64", "object"}
FetchOutcomes(S, n) ==
    {NoneFrame, Frame(<<>>, "object")}
        \cup {Frame(c, t) : c \in SeqsUpTo(S, n), t \in Dtypes}
NumericFrames(S, n) ==
    {NoneFrame, Frame(<<>>, "float64")}
        \cup {Frame(c, "float64") : c \in SeqsUpTo(S, n)}

\* series of the shape a rolling mean has: NaN first, defined values after
MaValues == {Scale * p : p \in Prices}
SmaShaped(n) ==
    {v \in [1..n -> MaValues \cup {NaN}] :
        \A i \in 1..(n - 1) : v[i] # NaN => v[i + 1] # NaN}

\* rolling().mean() of an object column either converts the text to floats
\* or raises DataError, depending on the pandas release
RollingOutcomes(df) ==
    IF ~df.none /\ ~Empty(df) /\ df.dtype = "object"
    THEN {"coerce", "raise"}
    ELSE {"coerce"}

\* ---- state ----
VARIABLES op, outcome, api_key, stock_data, vix_data, short_period,
          long_period, high_threshold, low_threshold, ma_short, ma_long,
          trend_direction_ma, vix_regime, overall_regime

vars == <<op, outcome, api_key, stock_data, vix_data, short_period,
          long_period, high_threshold, low_threshold, ma_short, ma_long,
          trend_direction_ma, vix_regime, overall_regime>>

Idle ==
    /\ op = "idle"
    /\ outcome = "none"
    /\ api_key = ""
    /\ stock_data = NoneFrame
    /\ vix_data = NoneFrame
    /\ short_period = 1
    /\ long_period = 1
    /\ high_threshold = VIX_THRESHOLD_HIGH
    /\ low_threshold = VIX_THRESHOLD_LOW
    /\ ma_short = NoneSeries
    /\ ma_long = NoneSeries
    /\ trend_direction_ma = Unset
    /\ vix_regime = Unset
    /\ overall_regime = "unset"

Init == Idle

IsException(x) == x \in {TypeError, IndexError, DataError}

\* the body of the Analyze branch of main, lines 155-166, as one value
RunAnalysis(s, v, sp, lp, hi, lo, rolling) ==
    LET raisesInRolling == ~s.none /\ ~Empty(s) /\ s.dtype = "object"
                              /\ rolling = "raise"
        mas == IF s.none \/ raisesInRolling
               THEN <<NoneSeries, NoneSeries>>
               ELSE calculate_moving_averages(s, sp, lp)
        trend == IF s.none THEN StockDataError
                 ELSE IF raisesInRolling THEN DataError
                 ELSE get_trend_direction_ma(s, mas[1], mas[2])
        vix == IF IsException(trend) THEN Unset ELSE get_vix_regime(v, hi, lo)
        aborted == IsException(trend) \/ IsException(vix)
    IN  [outcome |-> IF IsException(trend) THEN trend[1]
                     ELSE IF IsException(vix) THEN vix[1]
                     ELSE "rendered",
         ma_short |-> mas[1],
         ma_long |-> mas[2],
         trend |-> IF IsException(trend) THEN Unset ELSE trend,
         vix |-> IF aborted THEN Unset ELSE vix,
         overall |-> IF aborted THEN "unset"
                     ELSE determine_overall_regime(trend, vix)]

\* the Analyze button without an API key: st.stop() before any fetch
AnalyzeWithoutKey ==
    /\ op = "idle"
    /\ op' = "main"
    /\ outcome' = "stopped"
    /\ UNCHANGED <<api_key, stock_data, vix_data, ma_short, ma_long,
                   trend_direction_ma, vix_regime, overall_regime>>
    /\ \E sp \in Windows, lp \in Windows, hi \in Thresholds, lo \in Thresholds :
        /\ short_period' = sp
        /\ long_period' = lp
        /\ high_threshold' = hi
        /\ low_threshold' = lo

\* the Analyze button with an API key: both fetches, then the analysis
Analyze ==
    /\ op = "idle"
    /\ \E s \in FetchOutcomes(Prices, MaxLen),
          v \in FetchOutcomes(VixLevels, MaxVixLen),
          sp \in Windows, lp \in Windows,
          hi \in Thresholds, lo \in Thresholds :
        \E rolling \in RollingOutcomes(s) :
            LET r == RunAnalysis(s, v, sp, lp, hi, lo, rolling)
            IN  /\ op' = "main"
                /\ api_key' = "key"
                /\ stock_data' = s
                /\ vix_data' = v
                /\ short_period' = sp
                /\ long_period' = lp
                /\ high_threshold' = hi
                /\ low_threshold' = lo
                /\ outcome' = r.outcome
                /\ ma_short' = r.ma_short
                /\ ma_long' = r.ma_long
                /\ trend_direction_ma' = r.trend
                /\ vix_regime' = r.vix
                /\ overall_regime' = r.overall

\* ---- the functions called on their own, on numeric series ----
CallCalculateMovingAverages ==
    /\ op = "idle"
    /\ \E data \in NumericFrames(Prices, MaxLen),
          sp \in Windows, lp \in Windows :
        LET mas == calculate_moving_averages(data, sp, lp)
        IN  /\ op' = "calculate_moving_averages"
            /\ outcome' = "returned"
            /\ stock_data' = data
            /\ short_period' = sp
            /\ long_period' = lp
            /\ ma_short' = mas[1]
            /\ ma_long' = mas[2]
    /\ UNCHANGED <<api_key, vix_data, high_threshold, low_threshold,
                   trend_direction_ma, vix_regime, overall_regime>>

\* the arguments main can pass: nothing to average, or averages as long as
\* the price series
CallGetTrendDirectionMa ==
    /\ op = "idle"
    /\ \/ \E d \in {NoneFrame, Frame(<<>>, "float64")} :
            /\ stock_data' = d
            /\ ma_short' = NoneSeries
            /\ ma_long' = NoneSeries
       \/ \E n \in 1..MaxMaLen :
            \E c \in [1..n -> Prices], s \in SmaShaped(n), l \in SmaShaped(n) :
                /\ stock_data' = Frame(c, "float64")
                /\ ma_short' = Series(s)
                /\ ma_long' = Series(l)
    /\ trend_direction_ma' = get_trend_direction_ma(stock_data', ma_short', ma_long')
    /\ op' = "get_trend_direction_ma"
    /\ outcome' = "returned"
    /\ UNCHANGED <<api_key, vix_data, short_period, long_period,
                   high_threshold, low_threshold, vix_regime, overall_regime>>

CallGetVixRegime ==
    /\ op = "idle"
    /\ \E v \in NumericFrames(VixLevels, MaxVixLen),
          hi \in Thresholds, lo \in Thresholds :
        /\ op' = "get_vix_regime"
        /\ outcome' = "returned"
        /\ vix_data' = v
        /\ high_threshold' = hi
        /\ low_threshold' = lo
        /\ vix_regime' = get_vix_regime(v, hi, lo)
    /\ UNCHANGED <<api_key, stock_data, short_period, long_period, ma_short,
                   ma_long, trend_direction_ma, overall_regime>>

CallDetermineOverallRegime ==
    /\ op = "idle"
    /\ \E t \in TrendLabels \cup {StockDataError}, v \in VixLabels :
        /\ op' = "determine_overall_regime"
        /\ outcome' = "returned"
        /\ trend_direction_ma' = t
        /\ vix_regime' = v
        /\ overall_regime' = determine_overall_regime(t, v)
    /\ UNCHANGED <<api_key, stock_data, vix_data, short_period, long_period,
                   high_threshold, low_threshold, ma_short, ma_long>>

\* the script ends; the next run starts from nothing
Return ==
    /\ op # "idle"
    /\ op' = "idle"
    /\ outcome' = "none"
    /\ api_key' = ""
    /\ stock_data' = NoneFrame
    /\ vix_data' = NoneFrame
    /\ short_period' = 1
    /\ long_period' = 1
    /\ high_threshold' = VIX_THRESHOLD_HIGH
    /\ low_threshold' = VIX_THRESHOLD_LOW
    /\ ma_short' = NoneSeries
    /\ ma_long' = NoneSeries
    /\ trend_direction_ma' = Unset
    /\ vix_regime' = Unset
    /\ overall_regime' = "unset"

Next ==
    \/ AnalyzeWithoutKey
    \/ Analyze
    \/ CallCalculateMovingAverages
    \/ CallGetTrendDirectionMa
    \/ CallGetVixRegime
    \/ CallDetermineOverallRegime
    \/ Return

Spec == Init /\ [][Next]_vars

\* the functions alone, without the page
NextCalls ==
    \/ CallCalculateMovingAverages
    \/ CallGetTrendDirectionMa
    \/ CallGetVixRegime
    \/ CallDetermineOverallRegime
    \/ Return

SpecCalls == Init /\ [][NextCalls]_vars

TypeOK ==
    /\ op \in {"idle", "main", "calculate_moving_averages",
               "get_trend_direction_ma", "get_vix_regime",
               "determine_overall_regime"}
    /\ outcome \in {"none", "stopped", "rendered", "returned",
                    "TypeError", "DataError"}


\* ---- helpers of the properties ----
DefinedCount(series) ==
    IF series.none THEN 0
    ELSE Cardinality({i \in DOMAIN series.vals : series.vals[i] # NaN})

BearishTrend(t) == t \in {DeathCross, DowntrendBelowMAs}
BullishTrend(t) == t \in {GoldenCross, UptrendAboveMAs}

TrendCalled == op = "get_trend_direction_ma"
TrendOnSeries == TrendCalled /\ ~stock_data.none /\ ~Empty(stock_data)

\* C1: for each of the 6 trend labels and 4 volatility labels the combinator
\* returns one of the four overall regimes: UncertainMixed when one input is
\* bearish/downtrend and the other bullish/uptrend, DowntrendRegime when only
\* bearish signals are present, UptrendRegime when only bullish signals are
\* present, NeutralRegime when neither is present.
C1_CombineTotalWithPrecedence ==
    (op = "determine_overall_regime" /\ trend_direction_ma \in TrendLabels) =>
        LET t == trend_direction_ma
            v == vix_regime
            contradictory == \/ BearishTrend(t) /\ v = Bullish
                             \/ BullishTrend(t) /\ v = Bearish
            bearish == BearishTrend(t) \/ v = Bearish
            bullish == BullishTrend(t) \/ v = Bullish
        IN  /\ overall_regime \in OverallLabels
            /\ overall_regime =
                 IF contradictory THEN UncertainMixed
                 ELSE IF bearish THEN DowntrendRegime
                 ELSE IF bullish THEN UptrendRegime
                 ELSE NeutralRegime

C1_Witness ==
    /\ op = "determine_overall_regime"
    /\ trend_direction_ma = DeathCross
    /\ vix_regime = Bullish
    /\ overall_regime = UncertainMixed

\* C2 as stated: trend "Uptrend (Above MAs)" with volatility
\* "Bearish (High Volatility)" gives DowntrendRegime.
C2_UptrendWithBearishIsDowntrend ==
    (/\ op = "determine_overall_regime"
     /\ trend_direction_ma = UptrendAboveMAs
     /\ vix_regime = Bearish) => overall_regime = DowntrendRegime

\* C2 amended: trend "Uptrend (Above MAs)" with volatility
\* "Bearish (High Volatility)" gives UncertainMixed.
C2_UptrendWithBearishIsUncertain ==
    (/\ op = "determine_overall_regime"
     /\ trend_direction_ma = UptrendAboveMAs
     /\ vix_regime = Bearish) => overall_regime = UncertainMixed

C2_Witness ==
    /\ op = "determine_overall_regime"
    /\ trend_direction_ma = UptrendAboveMAs
    /\ vix_regime = Bearish
    /\ overall_regime = UncertainMixed

\* C3: whatever the two fetches of one Analyze request return, the request
\* ends with a trend label, a volatility label and an overall regime; a failed
\* or empty stock series gives a data-missing Neutral trend label, a failed or
\* empty VIX series gives DataMissing, and both missing give NeutralRegime.
C3_AnalysisAlwaysCompletes ==
    (op = "main" /\ api_key # "") =>
        LET stockMissing == stock_data.none \/ Empty(stock_data)
            vixMissing == vix_data.none \/ Empty(vix_data)
        IN  /\ outcome = "rendered"
            /\ trend_direction_ma \in TrendLabels \cup {StockDataError}
            /\ vix_regime \in VixLabels
            /\ overall_regime \in OverallLabels
            /\ stockMissing =>
                 trend_direction_ma \in {NeutralDataMissing, StockDataError}
            /\ vixMissing => vix_regime = DataMissing
            /\ (stockMissing /\ vixMissing) => overall_regime = NeutralRegime

\* C4: when both moving averages of a non-empty price series have fewer than
\* two defined values, the trend label is NeutralDataMissing.
C4_ShortHistoryIsDataMissing ==
    (TrendOnSeries /\ DefinedCount(ma_short) < 2 /\ DefinedCount(ma_long) < 2)
        => trend_direction_ma = NeutralDataMissing

\* C5: with at least two defined values of each moving average the label is
\* GoldenCross iff short(t) > long(t) and short(t-1) <= long(t-1), DeathCross
\* iff short(t) < long(t) and short(t-1) >= long(t-1); failing both it is
\* UptrendAboveMAs iff close > short(t), close > long(t) and short(t) > long(t),
\* DowntrendBelowMAs iff the three are reversed, and NeutralMixed otherwise.
C5_TrendLabelRules ==
    (TrendOnSeries /\ DefinedCount(ma_short) >= 2 /\ DefinedCount(ma_long) >= 2)
        =>
        LET n == Len(ma_short.vals)
            m == Len(ma_long.vals)
            st == ma_short.vals[n]
            st1 == ma_short.vals[n - 1]
            lt == ma_long.vals[m]
            lt1 == ma_long.vals[m - 1]
            close == Scale * stock_data.Close[Len(stock_data.Close)]
            golden == st > lt /\ st1 <= lt1
            death == st < lt /\ st1 >= lt1
            above == close > st /\ close > lt /\ st > lt
            below == close < st /\ close < lt /\ st < lt
            r == trend_direction_ma
        IN  /\ (r = GoldenCross) <=> golden
            /\ (r = DeathCross) <=> death
            /\ (r = UptrendAboveMAs) <=> (~golden /\ ~death /\ above)
            /\ (r = DowntrendBelowMAs) <=> (~golden /\ ~death /\ below)
            /\ (r = NeutralMixed) <=> (~golden /\ ~death /\ ~above /\ ~below)

C5_Witness ==
    /\ TrendOnSeries
    /\ DefinedCount(ma_short) >= 2
    /\ DefinedCount(ma_long) >= 2
    /\ ma_short.vals[Len(ma_short.vals) - 1] = ma_long.vals[Len(ma_long.vals) - 1]
    /\ trend_direction_ma = GoldenCross

\* C6: on a single-sample series the label is never GoldenCross and never
\* DeathCross, the previous value of each average being its current value.
C6_NoCrossOnFirstSample ==
    (TrendOnSeries /\ Len(stock_data.Close) = 1)
        => trend_direction_ma \notin {GoldenCross, DeathCross}

C6_Witness ==
    /\ TrendOnSeries
    /\ Len(stock_data.Close) = 1
    /\ Len(ma_short.vals) = 1
    /\ Len(ma_long.vals) = 1
    /\ GT(ma_short.vals[1], ma_long.vals[1])
    /\ trend_direction_ma = UptrendAboveMAs

\* C7: calling the trend detector with the short and long averages swapped
\* returns DeathCross exactly when the original call returns GoldenCross, and
\* GoldenCross exactly when the original call returns DeathCross.
C7_CrossoverAntisymmetric ==
    TrendOnSeries =>
        LET swapped == get_trend_direction_ma(stock_data, ma_long, ma_short)
        IN  /\ (trend_direction_ma = GoldenCross) <=> (swapped = DeathCross)
            /\ (trend_direction_ma = DeathCross) <=> (swapped = GoldenCross)

C7_Witness ==
    /\ TrendOnSeries
    /\ trend_direction_ma = GoldenCross
    /\ Len(ma_short.vals) = 2
    /\ ma_short.vals[1] = ma_long.vals[1]
    /\ get_trend_direction_ma(stock_data, ma_long, ma_short) = DeathCross

\* C8: the VIX regime depends on the latest value only: above high it is
\* Bearish, otherwise below low it is Bullish, otherwise Neutral; a missing or
\* empty series is DataMissing.  With high 25, low 20 and latest 30 it is
\* Bearish, and with trend DowntrendBelowMAs the overall regime is then
\* DowntrendRegime.
C8_VixRegimeOnLatestValue ==
    (op = "get_vix_regime") =>
        IF vix_data.none \/ Empty(vix_data)
        THEN vix_regime = DataMissing
        ELSE LET latest == vix_data.Close[Len(vix_data.Close)]
             IN  /\ vix_regime =
                      IF latest > high_threshold THEN Bearish
                      ELSE IF latest < low_threshold THEN Bullish
                      ELSE Neutral
                 /\ (high_threshold = 25 /\ low_threshold = 20 /\ latest = 30)
                      => /\ vix_regime = Bearish
                         /\ determine_overall_regime(DowntrendBelowMAs,
                                                     vix_regime)
                              = DowntrendRegime

C8_Witness ==
    /\ op = "get_vix_regime"
    /\ vix_data.Close = <<15, 30>>
    /\ high_threshold = 25
    /\ low_threshold = 20
    /\ vix_regime = Bearish

\* C9: an Analyze request whose windows violate their constraint (a window
\* below 1, or short window >= long window) ends with InvalidParameterError
\* and computes no moving average, no label and no regime.
C9_InvalidWindowsRejected ==
    (/\ op = "main"
     /\ api_key # ""
     /\ (short_period < 1 \/ long_period < 1 \/ short_period >= long_period))
        => /\ outcome = "InvalidParameterError"
           /\ ma_short.none
           /\ ma_long.none
           /\ trend_direction_ma = Unset
           /\ vix_regime = Unset
           /\ overall_regime = "unset"

WindowLaw(df, series, w, count) ==
    LET n == Len(df.Close)
    IN  /\ ~series.none
        /\ Len(series.vals) = n
        /\ DefinedCount(series) = count
        /\ \A i \in 1..n :
             IF i < w
             THEN series.vals[i] = NaN
             ELSE /\ series.vals[i] # NaN
                  /\ series.vals[i] * w
                       = Scale * SumRange(df.Close, i - w + 1, i)

Max(a, b) == IF a >= b THEN a ELSE b

\* C10 as stated: each moving average of a non-empty series of length n with
\* window w has exactly n - w + 1 defined values, at the indices i >= w-1,
\* each the mean of the w closes ending at i, and none before.
C10_SmaHasLenMinusWindowPlusOne ==
    (op = "calculate_moving_averages" /\ ~stock_data.none /\ ~Empty(stock_data))
        => LET n == Len(stock_data.Close)
           IN  /\ WindowLaw(stock_data, ma_short, short_period,
                            n - short_period + 1)
               /\ WindowLaw(stock_data, ma_long, long_period,
                            n - long_period + 1)

\* C10 amended: each moving average of a non-empty series of length n with
\* window w has exactly max(n - w + 1, 0) defined values, at the indices
\* i >= w-1, each the mean of the w closes ending at i, and none before.
C10_SmaDefinedFromWindow ==
    (op = "calculate_moving_averages" /\ ~stock_data.none /\ ~Empty(stock_data))
        => LET n == Len(stock_data.Close)
           IN  /\ WindowLaw(stock_data, ma_short, short_period,
                            Max(n - short_period + 1, 0))
               /\ WindowLaw(stock_data, ma_long, long_period,
                            Max(n - long_period + 1, 0))

C10_Witness ==
    /\ op = "calculate_moving_averages"
    /\ stock_data.Close = <<1, 3, 2>>
    /\ short_period = 2
    /\ long_period = 3
    /\ ma_short.vals = <<NaN, 2 * Scale, (5 * Scale) \div 2>>
    /\ ma_long.vals = <<NaN, NaN, 2 * Scale>>

====
